---------------------------- MODULE Spec2Model ----------------------------
(***************************************************************************)
(* Model of the UPBit REST client of src/api/upbit.py (class UPBitApi) and  *)
(* of the scripts that drive it (src/order.py, src/deposit.py).             *)
(*                                                                         *)
(* Python strings that are built, converted or encoded by the program are   *)
(* sequences of one-character strings, so that str(), quote_plus(),         *)
(* urlencode() and str.encode() are computed character by character.        *)
(* Values produced by library primitives that cannot be computed here       *)
(* (SHA-512, the signed JWT, uuid4) are symbolic terms over their inputs.    *)
(***************************************************************************)
EXTENDS Integers, Sequences, FiniteSets, TLC

VARIABLES environ, clients, loaded, call, uuids, nonces, ctor

vars == <<environ, clients, loaded, call, uuids, nonces, ctor>>

\* Number of uuids that uuid.uuid4() can draw in one behaviour, which bounds
\* the number of authenticated calls.
MaxUuid == 2

---------------------------------------------------------------------------
(* Python values *)

\* Python's None, and an optional argument that was provided.
None == <<>>
Some(v) == <<v>>

\* The printable ASCII characters, 0x20 .. 0x7E, in code order (the quotes,
\* parentheses, star and backslash are spelled out; no argument uses them).
Printable ==
  << " ", "!", "dquote", "#", "$", "%", "&", "'", "lparen", "rparen", "star", "+", ",", "-", ".", "/",
     "0", "1", "2", "3", "4", "5", "6", "7", "8", "9", ":", ";", "<", "=", ">", "?",
     "@", "A", "B", "C", "D", "E", "F", "G", "H", "I", "J", "K", "L", "M", "N", "O",
     "P", "Q", "R", "S", "T", "U", "V", "W", "X", "Y", "Z", "[", "backslash", "]", "^", "_",
     "backtick", "a", "b", "c", "d", "e", "f", "g", "h", "i", "j", "k", "l", "m", "n", "o",
     "p", "q", "r", "s", "t", "u", "v", "w", "x", "y", "z", "{", "|", "}", "~" >>

PrintableSet == { Printable[i] : i \in 1..Len(Printable) }

\* ord(c) of a printable ASCII character.
OrdTable ==
  [ c \in PrintableSet |-> 31 + CHOOSE i \in 1..Len(Printable) : Printable[i] = c ]
Ord(c) == OrdTable[c]

Digits == << "0", "1", "2", "3", "4", "5", "6", "7", "8", "9" >>
HexDigits == Digits \o << "A", "B", "C", "D", "E", "F" >>

RECURSIVE NatToStr(_)
NatToStr(n) ==
  IF n < 10 THEN << Digits[n + 1] >>
  ELSE NatToStr(n \div 10) \o << Digits[(n % 10) + 1] >>

\* str(n) of a Python int.
IntToStr(n) == IF n < 0 THEN << "-" >> \o NatToStr(0 - n) ELSE NatToStr(n)

\* The characters urllib.parse.quote_plus leaves alone.
AlwaysSafe ==
  { Printable[i] : i \in 17..26 } \cup { Printable[i] : i \in 34..59 }
    \cup { Printable[i] : i \in 66..91 } \cup { "_", ".", "-", "~" }

\* quote_plus of one character: space becomes +, unsafe becomes %XX.
QuoteChar(c) ==
  IF c = " " THEN << "+" >>
  ELSE IF c \in AlwaysSafe THEN << c >>
  ELSE << "%", HexDigits[(Ord(c) \div 16) + 1], HexDigits[(Ord(c) % 16) + 1] >>

QuoteTable == [ c \in PrintableSet |-> QuoteChar(c) ]

\* quote_plus(s): the quoted characters of s, in order.
quote_plus(s) ==
  LET q[i \in 0..Len(s)] == IF i = 0 THEN << >> ELSE q[i - 1] \o QuoteTable[s[i]]
  IN q[Len(s)]

\* urlencode(query): the items of the dict in insertion order, each
\* quote_plus(key) = quote_plus(value), joined by &.
urlencode(query) ==
  LET item(kv) == quote_plus(kv[1]) \o << "=" >> \o quote_plus(kv[2])
      e[i \in 0..Len(query)] ==
        IF i = 0 THEN << >>
        ELSE IF i = 1 THEN item(query[1])
        ELSE e[i - 1] \o << "&" >> \o item(query[i])
  IN e[Len(query)]

\* str.encode(): the UTF-8 bytes of a string of ASCII characters.
Encode(s) == [ i \in 1..Len(s) |-> Ord(s[i]) ]

\* hashlib.sha512(); m.update(bytes); m.hexdigest(): a term over the bytes.
Sha512Hex(bytes) == [ alg |-> "sha512", hexdigest_of |-> bytes ]

---------------------------------------------------------------------------
(* Vocabulary of src/api/upbit.py *)

\* Parameter names and fixed values, as Python strings.
K_market == << "m", "a", "r", "k", "e", "t" >>
K_side == << "s", "i", "d", "e" >>
K_ord_type == << "o", "r", "d", "_", "t", "y", "p", "e" >>
K_volume == << "v", "o", "l", "u", "m", "e" >>
K_price == << "p", "r", "i", "c", "e" >>
K_amount == << "a", "m", "o", "u", "n", "t" >>
K_isDetails == << "i", "s", "D", "e", "t", "a", "i", "l", "s" >>
V_false == << "f", "a", "l", "s", "e" >>
V_bid == << "b", "i", "d" >>

\* enum OrderType: member name -> value.
OrderType ==
  [ LIMIT |-> << "l", "i", "m", "i", "t" >>,
    PRICE |-> << "p", "r", "i", "c", "e" >>,
    MARKET |-> << "m", "a", "r", "k", "e", "t" >> ]

\* enum Market: member name -> value.
Market ==
  [ KRW_BTC |-> << "K", "R", "W", "-", "B", "T", "C" >>,
    KRW_ETH |-> << "K", "R", "W", "-", "E", "T", "H" >> ]

\* The environment variables UPBitApi.__init__ reads, in reading order.
EnvNames ==
  << "UPBIT_OPEN_API_ACCESS_KEY", "UPBIT_OPEN_API_SECRET_KEY",
     "UPBIT_OPEN_API_SERVER_URL" >>

EnvNameSet == { EnvNames[i] : i \in 1..Len(EnvNames) }

---------------------------------------------------------------------------
(* Inputs *)

\* The client objects: the `api` of src/order.py and of src/deposit.py.
ClientIds == { "order.api", "deposit.api" }

\* The values the environment holds for the variables that are set.
ProcessEnv ==
  [ UPBIT_OPEN_API_ACCESS_KEY |-> "ak-env",
    UPBIT_OPEN_API_SECRET_KEY |-> "sk-env",
    UPBIT_OPEN_API_SERVER_URL |-> "https://api.upbit.com" ]

\* market arguments of get_orders_chance (a str; any text is accepted).
ChanceMarkets == { Market.KRW_BTC, << "A", "&", "B", " ", "=" >> }

\* amount_krw arguments of deposits_krw.
Amounts == { 0, 80000 }

\* volume and price arguments of order_bid (None when not passed).
Volumes == { None, Some(0) }
Prices == { None, Some(10000) }

\* Responses the server may give: status code and body text.
Responses ==
  { [ status_code |-> 200, text |-> "[]" ],
    [ status_code |-> 204, text |-> "" ],
    [ status_code |-> 304, text |-> "" ],
    [ status_code |-> 304, text |-> "[]" ],
    [ status_code |-> 404, text |-> "{\"error\": {\"name\": 404}}" ],
    [ status_code |-> 500, text |-> "" ] }

\* Values uuid.uuid4() can return.
UuidPool == 1..MaxUuid

---------------------------------------------------------------------------
(* Library primitives used by src/api/upbit.py *)

\* str(uuid.uuid4()) of the uuid that was drawn.
uuid_str(u) == << "uuid4", u >>

\* jwt.encode(payload, key): the token signed with key (HS256 by default).
jwt_encode(payload, key) == [ alg |-> "HS256", payload |-> payload, key |-> key ]

\* Fault variant: only server errors raise.
raise_for_status_5xx(r) == r.status_code >= 500 /\ r.status_code < 600

\* Response.raise_for_status(): raises HTTPError for 400 <= status < 600.
raise_for_status(r) == r.status_code >= 400 /\ r.status_code < 600

\* Response.json(): the parsed body, or a decode error.
JsonLoads(text) ==
  IF text = "[]" THEN [ ok |-> TRUE, value |-> [ type |-> "list", items |-> << >> ] ]
  ELSE [ ok |-> FALSE ]

---------------------------------------------------------------------------
(* class UPBitApi *)

\* Fault variant: the secret key is read with os.environ.get(name, "").
UPBitApi_init_get(env) ==
  IF env[EnvNames[1]] = None
  THEN [ raised |-> TRUE, exc |-> "KeyError", key |-> EnvNames[1], self |-> None ]
  ELSE IF env[EnvNames[3]] = None
  THEN [ raised |-> TRUE, exc |-> "KeyError", key |-> EnvNames[3], self |-> None ]
  ELSE [ raised |-> FALSE, exc |-> "", key |-> "",
         self |-> Some([ access_key |-> env[EnvNames[1]][1],
                         secret_key |-> IF env[EnvNames[2]] = None THEN ""
                                        ELSE env[EnvNames[2]][1],
                         server_url |-> env[EnvNames[3]][1] ]) ]

\* __init__: os.environ[name] for the three names in order; the first
\* absent one raises KeyError and no object is returned.
UPBitApi_init(env) ==
  IF \E i \in 1..Len(EnvNames) : env[EnvNames[i]] = None
  THEN [ raised |-> TRUE, exc |-> "KeyError",
         key |-> EnvNames[CHOOSE i \in 1..Len(EnvNames) :
                   /\ env[EnvNames[i]] = None
                   /\ \A j \in 1..(i - 1) : env[EnvNames[j]] # None],
         self |-> None ]
  ELSE [ raised |-> FALSE, exc |-> "", key |-> "",
         self |-> Some([ access_key |-> env[EnvNames[1]][1],
                         secret_key |-> env[EnvNames[2]][1],
                         server_url |-> env[EnvNames[3]][1] ]) ]

\* Fault variant: the nonce is a fixed uuid instead of the one just drawn.
NonceStatic(self, u) == uuid_str(0)

\* "nonce": str(uuid.uuid4()) of each token payload.
Nonce(self, u) == uuid_str(u)

\* Fault variant: the hashed string is joined without percent-encoding.
QueryHashUnquoted(query) ==
  Sha512Hex(Encode(
    IF query = << >> THEN << >>
    ELSE LET RECURSIVE join(_)
             join(q) == IF Len(q) = 1 THEN q[1][1] \o << "=" >> \o q[1][2]
                        ELSE q[1][1] \o << "=" >> \o q[1][2] \o << "&" >> \o join(Tail(q))
         IN join(query)))

\* query_string = urlencode(query).encode(); sha512; hexdigest.
QueryHash(query) == Sha512Hex(Encode(urlencode(query)))

\* Fault variant: the payload carries the secret key as access_key.
SignedPayloadSwapped(self, query, u) ==
  [ access_key |-> self.secret_key, nonce |-> Nonce(self, u),
    query_hash |-> QueryHash(query), query_hash_alg |-> "SHA512" ]

\* The payload of a request with parameters.
SignedPayload(self, query, u) ==
  [ access_key |-> self.access_key, nonce |-> Nonce(self, u),
    query_hash |-> QueryHash(query), query_hash_alg |-> "SHA512" ]

\* Fault variant: get_accounts hashes an empty query like the others.
get_accounts_payload_hashed(self, u) ==
  [ access_key |-> self.access_key, nonce |-> Nonce(self, u),
    query_hash |-> QueryHash(<< >>), query_hash_alg |-> "SHA512" ]

\* The payload of get_accounts.
get_accounts_payload(self, u) ==
  [ access_key |-> self.access_key, nonce |-> Nonce(self, u) ]

\* Fault variant: the token is signed with the access key.
AuthHeadersAccessKey(self, payload) ==
  [ Authorization |-> << "Bearer ", jwt_encode(payload, self.access_key) >> ]

\* jwt_token = jwt.encode(payload, self.secret_key);
\* headers = {"Authorization": "Bearer {}".format(jwt_token)}.
AuthHeaders(self, payload) ==
  [ Authorization |-> << "Bearer ", jwt_encode(payload, self.secret_key) >> ]

\* req_func(url, params=params, headers=headers): the request handed to
\* requests.get / requests.post; nothing is passed as data or json.
_request_tmpl(req_func, url, params, headers) ==
  [ method |-> req_func, url |-> url, params |-> params, headers |-> headers,
    data |-> None ]

_request_get(url, params, headers) == _request_tmpl("GET", url, params, headers)

\* Fault variant: POST sends the parameters as the body (data=params).
_request_post_body(url, params, headers) ==
  [ method |-> "POST", url |-> url, params |-> None, headers |-> headers,
    data |-> params ]

_request_post(url, params, headers) == _request_tmpl("POST", url, params, headers)

\* Fault variant: "if volume:" / "if price:" instead of "is not None".
order_bid_query_truthy(market, order_type, volume, price) ==
  << << K_market, Market[market] >>, << K_side, V_bid >>,
     << K_ord_type, OrderType[order_type] >> >>
    \o (IF volume # None /\ volume[1] # 0
        THEN << << K_volume, IntToStr(volume[1]) >> >> ELSE << >>)
    \o (IF price # None /\ price[1] # 0
        THEN << << K_price, IntToStr(price[1]) >> >> ELSE << >>)

\* order_bid: the query dict.
order_bid_query(market, order_type, volume, price) ==
  << << K_market, Market[market] >>, << K_side, V_bid >>,
     << K_ord_type, OrderType[order_type] >> >>
    \o (IF volume # None THEN << << K_volume, IntToStr(volume[1]) >> >> ELSE << >>)
    \o (IF price # None THEN << << K_price, IntToStr(price[1]) >> >> ELSE << >>)

\* Fault variant: an error status is retried once before it is raised.
_request_tmpl_retry(c, r) ==
  IF raise_for_status(r) /\ Len(c.sent) < 2
  THEN [ c EXCEPT !.sent = Append(@, @[1]) ]
  ELSE IF raise_for_status(r)
  THEN [ c EXCEPT !.pc = "raised", !.response = Some(r),
           !.outcome = [ exc |-> "HTTPError", status_code |-> Some(r.status_code),
                         text |-> Some(r.text), value |-> None ] ]
  ELSE IF JsonLoads(r.text).ok
  THEN [ c EXCEPT !.pc = "returned", !.response = Some(r),
           !.outcome = [ exc |-> "", status_code |-> None, text |-> None,
                         value |-> Some(JsonLoads(r.text).value) ] ]
  ELSE [ c EXCEPT !.pc = "raised", !.response = Some(r),
           !.outcome = [ exc |-> "JSONDecodeError", status_code |-> None,
                         text |-> None, value |-> None ] ]

\* _request_tmpl after req_func returned r: r.raise_for_status();
\* return r.json().
_request_tmpl_return(c, r) ==
  IF raise_for_status(r)
  THEN [ c EXCEPT !.pc = "raised", !.response = Some(r),
           !.outcome = [ exc |-> "HTTPError", status_code |-> Some(r.status_code),
                         text |-> Some(r.text), value |-> None ] ]
  ELSE IF JsonLoads(r.text).ok
  THEN [ c EXCEPT !.pc = "returned", !.response = Some(r),
           !.outcome = [ exc |-> "", status_code |-> None, text |-> None,
                         value |-> Some(JsonLoads(r.text).value) ] ]
  ELSE [ c EXCEPT !.pc = "raised", !.response = Some(r),
           !.outcome = [ exc |-> "JSONDecodeError", status_code |-> None,
                         text |-> None, value |-> None ] ]

---------------------------------------------------------------------------
(* State *)

NoOutcome == [ exc |-> "", status_code |-> None, text |-> None, value |-> None ]

NoCall ==
  [ pc |-> "idle", op |-> "", client |-> "", args |-> << >>, payload |-> None,
    sent |-> << >>, response |-> None, outcome |-> NoOutcome ]

Init ==
  /\ environ \in
       { [ n \in EnvNameSet |-> IF n \in present THEN Some(ProcessEnv[n]) ELSE None ] :
           present \in SUBSET EnvNameSet }
  /\ clients = [ c \in ClientIds |-> None ]
  /\ loaded = [ c \in ClientIds |-> None ]
  /\ call = NoCall
  /\ uuids = { }
  /\ nonces = << >>
  /\ ctor = [ client |-> "", raised |-> FALSE, exc |-> "", key |-> "", env |-> None ]

\* api = UPBitApi()
Construct(c) ==
  /\ call.pc = "idle"
  /\ clients[c] = None
  /\ LET r == UPBitApi_init(environ)
     IN /\ clients' = [ clients EXCEPT ![c] = r.self ]
        /\ loaded' = [ loaded EXCEPT ![c] = IF r.raised THEN None ELSE Some(environ) ]
        /\ ctor' = [ client |-> c, raised |-> r.raised, exc |-> r.exc, key |-> r.key,
                     env |-> Some(environ) ]
  /\ UNCHANGED << environ, call, uuids, nonces >>

\* An operation of client c runs up to its call of requests.get/post.
Dispatch(c, op, args, payload, req) ==
  call' = [ pc |-> "waiting", op |-> op, client |-> c, args |-> args,
            payload |-> payload, sent |-> << req >>, response |-> None,
            outcome |-> NoOutcome ]

CanCall(c) == call.pc = "idle" /\ clients[c] # None

\* An authenticated operation draws one uuid4 for its payload: a value
\* uuid4 has not returned before. nonces logs the nonce each authenticated
\* request carries.
Draw(c, op, u, payload) ==
  /\ u \in UuidPool \ uuids
  /\ uuids' = uuids \cup { u }
  /\ nonces' = Append(nonces, [ client |-> c, op |-> op, nonce |-> payload.nonce ])

get_market_all(c) ==
  /\ CanCall(c)
  /\ LET self == clients[c][1]
     IN Dispatch(c, "get_market_all", << >>, None,
          _request_get(self.server_url \o "/v1/market/all",
                       Some(<< << K_isDetails, V_false >> >>), None))
  /\ UNCHANGED << environ, clients, loaded, uuids, nonces, ctor >>

get_orders_chance(c, market, u) ==
  /\ CanCall(c)
  /\ LET self == clients[c][1]
         query == << << K_market, market >> >>
         payload == SignedPayload(self, query, u)
         headers == AuthHeaders(self, payload)
     IN /\ Draw(c, "get_orders_chance", u, payload)
        /\ Dispatch(c, "get_orders_chance", [ market |-> market ], Some(payload),
             _request_get(self.server_url \o "/v1/orders/chance",
                          Some(query), Some(headers)))
  /\ UNCHANGED << environ, clients, loaded, ctor >>

get_accounts(c, u) ==
  /\ CanCall(c)
  /\ LET self == clients[c][1]
         payload == get_accounts_payload(self, u)
         headers == AuthHeaders(self, payload)
     IN /\ Draw(c, "get_accounts", u, payload)
        /\ Dispatch(c, "get_accounts", << >>, Some(payload),
             _request_get(self.server_url \o "/v1/accounts", None, Some(headers)))
  /\ UNCHANGED << environ, clients, loaded, ctor >>

deposits_krw(c, amount_krw, u) ==
  /\ CanCall(c)
  /\ LET self == clients[c][1]
         query == << << K_amount, IntToStr(amount_krw) >> >>
         payload == SignedPayload(self, query, u)
         headers == AuthHeaders(self, payload)
     IN /\ Draw(c, "deposits_krw", u, payload)
        /\ Dispatch(c, "deposits_krw", [ amount_krw |-> amount_krw ], Some(payload),
             _request_post(self.server_url \o "/v1/deposits/krw",
                           Some(query), Some(headers)))
  /\ UNCHANGED << environ, clients, loaded, ctor >>

order_bid(c, market, order_type, volume, price, u) ==
  /\ CanCall(c)
  /\ LET self == clients[c][1]
         query == order_bid_query(market, order_type, volume, price)
         payload == SignedPayload(self, query, u)
         headers == AuthHeaders(self, payload)
     IN /\ Draw(c, "order_bid", u, payload)
        /\ Dispatch(c, "order_bid",
             [ market |-> market, order_type |-> order_type, volume |-> volume,
               price |-> price ],
             Some(payload),
             _request_post(self.server_url \o "/v1/orders", Some(query), Some(headers)))
  /\ UNCHANGED << environ, clients, loaded, ctor >>

\* req_func returns the response r.
Respond(r) ==
  /\ call.pc = "waiting"
  /\ call' = _request_tmpl_return(call, r)
  /\ UNCHANGED << environ, clients, loaded, uuids, nonces, ctor >>

\* req_func raises a network-level error; nothing catches it.
TransportError ==
  /\ call.pc = "waiting"
  /\ call' = [ call EXCEPT !.pc = "raised",
                 !.outcome = [ exc |-> "ConnectionError", status_code |-> None,
                               text |-> None, value |-> None ] ]
  /\ UNCHANGED << environ, clients, loaded, uuids, nonces, ctor >>

\* The caller has the result (print(json.dumps(response))) or has handled
\* the exception, and goes on.
Finish ==
  /\ call.pc \in { "returned", "raised" }
  /\ call' = NoCall
  /\ UNCHANGED << environ, clients, loaded, uuids, nonces, ctor >>

Next ==
  \/ \E c \in ClientIds : Construct(c)
  \/ \E c \in ClientIds : get_market_all(c)
  \/ \E c \in ClientIds, market \in ChanceMarkets, u \in UuidPool :
       get_orders_chance(c, market, u)
  \/ \E c \in ClientIds, u \in UuidPool : get_accounts(c, u)
  \/ \E c \in ClientIds, amount_krw \in Amounts, u \in UuidPool :
       deposits_krw(c, amount_krw, u)
  \/ \E c \in ClientIds, market \in DOMAIN Market, order_type \in DOMAIN OrderType,
        volume \in Volumes, price \in Prices, u \in UuidPool :
       order_bid(c, market, order_type, volume, price, u)
  \/ \E r \in Responses : Respond(r)
  \/ TransportError
  \/ Finish

Spec == Init /\ [][Next]_vars

---------------------------------------------------------------------------
(* Properties *)

\* An invocation is in progress or has just finished.
Active == call.pc # "idle"

\* The request the invocation handed to requests.get / requests.post.
Req == call.sent[1]

\* The mapping passed as params (empty when none was passed).
ParamsOf(req) == IF req.params = None THEN << >> ELSE req.params[1]

AuthOps == { "get_orders_chance", "get_accounts", "deposits_krw", "order_bid" }

Finished == call.pc \in { "returned", "raised" } /\ call.response # None

\* C1 as stated: a non-2xx status makes the call fail with HttpError carrying
\* the status and the body, and a 2xx status makes it return the parsed body.
C1_AsStated ==
  Finished =>
    LET r == call.response[1]
    IN IF r.status_code >= 200 /\ r.status_code < 300
       THEN /\ call.pc = "returned"
            /\ JsonLoads(r.text).ok
            /\ call.outcome.value = Some(JsonLoads(r.text).value)
       ELSE /\ call.pc = "raised"
            /\ call.outcome.exc = "HTTPError"
            /\ call.outcome.status_code = Some(r.status_code)
            /\ call.outcome.text = Some(r.text)

\* C1 (amended): a 4xx or 5xx status makes the call fail with HttpError
\* carrying that status and the response body, returning no value; with any
\* other status the call returns the parsed JSON body when the body is JSON
\* and fails with a JSON decode error when it is not.
C1_ErrorOn4xx5xx ==
  Finished =>
    LET r == call.response[1]
    IN IF r.status_code \in 400..599
       THEN /\ call.pc = "raised"
            /\ call.outcome.exc = "HTTPError"
            /\ call.outcome.status_code = Some(r.status_code)
            /\ call.outcome.text = Some(r.text)
            /\ call.outcome.value = None
       ELSE IF r.text = "[]"
       THEN /\ call.pc = "returned"
            /\ call.outcome.value = Some([ type |-> "list", items |-> << >> ])
       ELSE /\ call.pc = "raised"
            /\ call.outcome.exc = "JSONDecodeError"
            /\ call.outcome.value = None

\* A transport returned 404 and the operation raised HTTPError with status 404.
C1_Witness ==
  /\ Finished
  /\ call.response[1].status_code = 404
  /\ call.pc = "raised"
  /\ call.outcome.exc = "HTTPError"
  /\ call.outcome.status_code = Some(404)

\* C2: every authenticated request carries a nonce drawn by uuid4 during that
\* call (one draw per request), and no two requests, of one client or of
\* several, carry the same nonce.
C2_NoncesDistinct ==
  /\ \A i, j \in 1..Len(nonces) : i # j => nonces[i].nonce # nonces[j].nonce
  /\ Len(nonces) = Cardinality(uuids)
  /\ \A i \in 1..Len(nonces) : nonces[i].nonce \in { uuid_str(u) : u \in uuids }
  /\ (Active /\ call.op \in AuthOps) =>
       /\ Len(nonces) > 0
       /\ call.payload # None
       /\ call.payload[1].nonce = nonces[Len(nonces)].nonce

\* The same client called get_accounts twice (identical arguments).
C2_Witness ==
  /\ Len(nonces) = 2
  /\ nonces[1].op = "get_accounts"
  /\ nonces[2].op = "get_accounts"
  /\ nonces[1].client = nonces[2].client

\* C3: the payload has query_hash and query_hash_alg = "SHA512" exactly when
\* the request has a non-empty parameter mapping; get_accounts has only
\* access_key and nonce, the other authenticated operations have both fields.
C3_QueryHashIffParams ==
  (Active /\ call.payload # None) =>
    LET p == call.payload[1]
        hashed == { "query_hash", "query_hash_alg" } \subseteq DOMAIN p
    IN /\ hashed \/ { "query_hash", "query_hash_alg" } \cap DOMAIN p = { }
       /\ hashed <=> ParamsOf(Req) # << >>
       /\ hashed => p.query_hash_alg = "SHA512"
       /\ call.op = "get_accounts" =>
            /\ DOMAIN p = { "access_key", "nonce" }
            /\ ParamsOf(Req) = << >>
       /\ call.op \in AuthOps \ { "get_accounts" } => hashed

\* get_accounts dispatched its request.
C3_Witness ==
  /\ call.pc = "waiting"
  /\ call.op = "get_accounts"
  /\ DOMAIN call.payload[1] = { "access_key", "nonce" }

\* C4: the query_hash of the token is the SHA-512 hex digest of the
\* insertion-ordered percent-encoded string of the very mapping that the
\* request transmits as its query.
C4_HashOfTransmittedQuery ==
  (Active /\ call.payload # None /\ ParamsOf(Req) # << >>) =>
    call.payload[1].query_hash = Sha512Hex(Encode(urlencode(ParamsOf(Req))))

\* get_orders_chance sent a market whose characters need percent-encoding.
C4_Witness ==
  /\ call.pc = "waiting"
  /\ call.op = "get_orders_chance"
  /\ ParamsOf(Req) = << << K_market, << "A", "&", "B", " ", "=" >> >> >>
  /\ urlencode(ParamsOf(Req)) =
       << "m", "a", "r", "k", "e", "t", "=", "A", "%", "2", "6", "B", "+", "%", "3", "D" >>

\* The value of key k in the mapping q.
Lookup(q, k) == q[CHOOSE i \in 1..Len(q) : q[i][1] = k][2]

\* C5: order_bid sends exactly market, side = "bid" and ord_type, plus volume
\* (as a string) iff volume was given and price (as a string) iff price was
\* given, and it dispatches whatever the combination is (order_bid reads
\* nothing but its arguments and self, so its acceptance of a combination is
\* evaluated where a constructed client is about to make its first
\* authenticated call).
C5_OrderBidParams ==
  /\ (Active /\ call.op = "order_bid") =>
       LET q == ParamsOf(Req)
           a == call.args
       IN /\ { q[i][1] : i \in 1..Len(q) } =
               { K_market, K_side, K_ord_type }
                 \cup (IF a.volume # None THEN { K_volume } ELSE { })
                 \cup (IF a.price # None THEN { K_price } ELSE { })
          /\ Cardinality({ q[i][1] : i \in 1..Len(q) }) = Len(q)
          /\ Lookup(q, K_market) = Market[a.market]
          /\ Lookup(q, K_side) = << "b", "i", "d" >>
          /\ Lookup(q, K_ord_type) = OrderType[a.order_type]
          /\ a.volume # None => Lookup(q, K_volume) = IntToStr(a.volume[1])
          /\ a.price # None => Lookup(q, K_price) = IntToStr(a.price[1])
          /\ (a.market = "KRW_BTC" /\ a.order_type = "PRICE" /\ a.volume = None
                /\ a.price = Some(10000)) =>
               q = << << K_market, << "K", "R", "W", "-", "B", "T", "C" >> >>,
                      << K_side, << "b", "i", "d" >> >>,
                      << K_ord_type, << "p", "r", "i", "c", "e" >> >>,
                      << K_price, << "1", "0", "0", "0", "0" >> >> >>
  /\ IF call.pc = "idle" /\ uuids = { }
     THEN \A c \in { d \in ClientIds : clients[d] # None } :
            \A market \in DOMAIN Market, order_type \in DOMAIN OrderType,
               volume \in Volumes, price \in Prices :
              \E u \in UuidPool :
                ENABLED order_bid(c, market, order_type, volume, price, u)
     ELSE TRUE

\* order_bid(KRW_BTC, PRICE, price=10000) dispatched its request.
C5_Witness ==
  /\ call.pc = "waiting"
  /\ call.op = "order_bid"
  /\ call.args = [ market |-> "KRW_BTC", order_type |-> "PRICE", volume |-> None,
                   price |-> Some(10000) ]

\* C6: a request has an Authorization header iff its operation is an
\* authenticated one; get_market_all sends {isDetails: "false"} and no
\* header; the header is "Bearer <token>", the token being the payload of
\* that request signed with the client's secret key.
C6_AuthorizationHeader ==
  Active =>
    /\ Req.headers # None <=> call.op \in AuthOps
    /\ call.op = "get_market_all" =>
         /\ Req.params = Some(<< << K_isDetails, V_false >> >>)
         /\ Req.headers = None
         /\ call.payload = None
    /\ call.op \in AuthOps =>
         /\ DOMAIN Req.headers[1] = { "Authorization" }
         /\ Req.headers[1].Authorization =
              << "Bearer ",
                 [ alg |-> "HS256", payload |-> call.payload[1],
                   key |-> clients[call.client][1].secret_key ] >>

\* get_market_all dispatched its request.
C6_Witness ==
  /\ call.pc = "waiting"
  /\ call.op = "get_market_all"
  /\ Req.headers = None

\* C7: get_market_all, get_orders_chance and get_accounts issue GET,
\* deposits_krw and order_bid issue POST, and the parameters always go in
\* the query of the URL, never in a body.
C7_VerbAndQuery ==
  Active =>
    /\ call.op \in { "get_market_all", "get_orders_chance", "get_accounts" } =>
         Req.method = "GET"
    /\ call.op \in { "deposits_krw", "order_bid" } => Req.method = "POST"
    /\ Req.data = None
    /\ call.op # "get_accounts" => Req.params # None /\ ParamsOf(Req) # << >>

\* deposits_krw dispatched a POST with its amount in the query.
C7_Witness ==
  /\ call.pc = "waiting"
  /\ call.op = "deposits_krw"
  /\ Req.method = "POST"
  /\ ParamsOf(Req) = << << K_amount, << "8", "0", "0", "0", "0" >> >> >>

\* C8: construction fails (KeyError, the configuration error) and yields no
\* client when any of the three variables is absent, stores exactly the three
\* values when all are present, and no request is ever dispatched by a client
\* that lacks a credential.
C8_ConstructionNeedsAll ==
  /\ ctor.env # None =>
       LET env == ctor.env[1]
       IN IF \E n \in EnvNameSet : env[n] = None
          THEN /\ ctor.raised
               /\ ctor.exc = "KeyError"
               /\ env[ctor.key] = None
               /\ clients[ctor.client] = None
          ELSE /\ ~ctor.raised
               /\ clients[ctor.client] =
                    Some([ access_key |-> env["UPBIT_OPEN_API_ACCESS_KEY"][1],
                           secret_key |-> env["UPBIT_OPEN_API_SECRET_KEY"][1],
                           server_url |-> env["UPBIT_OPEN_API_SERVER_URL"][1] ])
  /\ \A c \in ClientIds :
       clients[c] # None => \A n \in EnvNameSet : loaded[c][1][n] # None
  /\ Active =>
       /\ clients[call.client] # None
       /\ \A n \in EnvNameSet : loaded[call.client][1][n] # None

\* Construction failed because only the secret key was absent.
C8_Witness ==
  /\ ctor.env # None
  /\ ctor.raised
  /\ ctor.key = "UPBIT_OPEN_API_SECRET_KEY"
  /\ ctor.env[1]["UPBIT_OPEN_API_ACCESS_KEY"] # None
  /\ ctor.env[1]["UPBIT_OPEN_API_SERVER_URL"] # None
  /\ clients[ctor.client] = None

C10_CredentialsImmutable ==
  /\ \A c \in ClientIds :
       clients[c] # None =>
         /\ loaded[c] # None
         /\ clients[c][1].access_key = loaded[c][1]["UPBIT_OPEN_API_ACCESS_KEY"][1]
         /\ clients[c][1].secret_key = loaded[c][1]["UPBIT_OPEN_API_SECRET_KEY"][1]
         /\ clients[c][1].server_url = loaded[c][1]["UPBIT_OPEN_API_SERVER_URL"][1]
  /\ (Active /\ call.payload # None) =>
       call.payload[1].access_key = loaded[call.client][1]["UPBIT_OPEN_API_ACCESS_KEY"][1]

\* A second authenticated call, a deposits_krw, raised.
C10_Witness ==
  /\ call.pc = "raised"
  /\ call.op = "deposits_krw"
  /\ Len(nonces) = 2
  /\ clients[call.client] # None

===========================================================================
